---- MODULE Spec2Model ----
(***************************************************************************)
(* clean-csv (src/main.rs): removes from a CSV file the rows whose `email` *)
(* value occurs in another CSV file (three command-line words), or the     *)
(* rows whose `email` value already occurred earlier in the same file (two *)
(* command-line words).  The output is written to "<file>.temp" and        *)
(* renamed over the file when the pass succeeds.                           *)
(*                                                                         *)
(* A string is a sequence of one-character strings, a record (row) is a    *)
(* sequence of strings, a file's content is the sequence of its rows, the  *)
(* header row first.  An Option is a sequence of length 0 (None) or 1.     *)
(*                                                                         *)
(* Files are kept as rows: what the csv writer writes for a row is what    *)
(* the csv reader yields for it, so quoting and line ends do not appear.   *)
(* The reader is the default one: the first row is the header, and a row   *)
(* with another number of fields than the header is an error.  Every step  *)
(* that does I/O can also fail.  std::fs::remove_file is taken to remove   *)
(* the file when there is one; main discards its result.                   *)
(***************************************************************************)
EXTENDS Integers, Sequences, FiniteSets, TLC

\* ------------------------------------------------------------------ bounds

\* Most data rows of a target file.
MaxRows == 2

\* Most data rows of a reference file.
MaxRefRows == 1

\* Most runs of the program in one behaviour.
MaxRuns == 2

\* ----------------------------------------------------------------- strings

EMAIL == <<"e", "m", "a", "i", "l">>
NAME == <<"n", "a", "m", "e">>
DOT_TEMP == <<".", "t", "e", "m", "p">>

None == <<>>
Some(v) == <<v>>

\* char::is_whitespace, on the alphabet of the model.
IsWhitespace(c) == c \in {" ", "\t"}

\* char::to_lowercase, on the alphabet of the model.
ToLowerChar(c) ==
  CASE c = "A" -> "a"
    [] c = "B" -> "b"
    [] c = "E" -> "e"
    [] OTHER -> c

\* str::to_lowercase
ToLowercase(s) == [i \in 1..Len(s) |-> ToLowerChar(s[i])]

RECURSIVE TrimStart(_)
TrimStart(s) ==
  IF s # <<>> /\ IsWhitespace(Head(s)) THEN TrimStart(Tail(s)) ELSE s

RECURSIVE TrimEnd(_)
TrimEnd(s) ==
  IF s # <<>> /\ IsWhitespace(s[Len(s)])
  THEN TrimEnd(SubSeq(s, 1, Len(s) - 1))
  ELSE s

\* str::trim: leading and trailing whitespace removed, the inside kept.
Trim(s) == TrimEnd(TrimStart(s))

\* The output written in place: the path itself.
TempOutputPathInPlace(path) == path

\* format!(".temp"): the path left out.
TempOutputPathNoArg(path) == DOT_TEMP

\* format!("{}.temp", path)
TempOutputPath(path) == path \o DOT_TEMP

\* ------------------------------------------------------------- CSV records

\* StringRecord::get(i), i counted from 0.
Get(record, i) == IF i < Len(record) THEN Some(record[i + 1]) ELSE None

\* position with a comparison that ignores case.
PositionIgnoreCase(hdr) ==
  LET hits == {i \in 1..Len(hdr) : ToLowercase(hdr[i]) = EMAIL}
  IN IF hits = {} THEN None
     ELSE Some((CHOOSE i \in hits : \A j \in hits : i <= j) - 1)

\* headers.iter().position(|h| h == "email"): the first exact match, from 0.
Position(hdr) ==
  LET hits == {i \in 1..Len(hdr) : hdr[i] = EMAIL}
  IN IF hits = {} THEN None
     ELSE Some((CHOOSE i \in hits : \A j \in hits : i <= j) - 1)

\* csv_reader.headers(): the first row of the data, the empty record when
\* the data is empty.
HeadersOf(data) == IF data = <<>> THEN <<>> ELSE data[1]

\* Number of rows csv_reader.records() yields after the header.
NumRecords(data) == IF data = <<>> THEN 0 ELSE Len(data) - 1

\* The idx-th row (from 0) that csv_reader.records() yields.
RecordAt(data, i) == data[i + 2]

\* The reader is not flexible: a row whose number of fields differs from the
\* header's is an error (csv::ErrorKind::UnequalLengths).
UnequalLengths(hdr, record) == Len(record) # Len(hdr)

\* write_record called twice for a row.
WriteRecordTwice(data, record) == Append(Append(data, record), record)

\* write_record given the trimmed fields.
WriteRecordTrimmed(data, record) ==
  Append(data, [i \in 1..Len(record) |-> Trim(record[i])])

\* csv_writer.write_record(&record): the row is appended as it is.
WriteRecord(data, record) == Append(data, record)

\* ------------------------------------------------------------ the decisions

\* read_emails_to_set, body of the loop: the set after one record.
InsertEmail(emails, email_cell) ==
  IF email_cell = None THEN emails
  ELSE IF Trim(email_cell[1]) = <<>> THEN emails
  ELSE emails \cup {ToLowercase(Trim(email_cell[1]))}

\* keep_row comparing without to_lowercase.
KeepRowNoLowercase(email_cell, emails_to_remove) ==
  IF email_cell = None THEN TRUE
  ELSE IF Trim(email_cell[1]) = <<>> THEN TRUE
  ELSE Trim(email_cell[1]) \notin emails_to_remove

\* clean_file_by_emails: keep_row.
KeepRow(email_cell, emails_to_remove) ==
  IF email_cell = None THEN TRUE
  ELSE IF Trim(email_cell[1]) = <<>> THEN TRUE
  ELSE ToLowercase(Trim(email_cell[1])) \notin emails_to_remove

\* HashSet::insert: the set afterwards, and whether the value was new.
HashSetInsert(set, v) == [set |-> set \cup {v}, inserted |-> v \notin set]

\* is_duplicate comparing and inserting without to_lowercase.
SeenStepNoLowercase(email_cell, seen) ==
  IF email_cell = None THEN [is_duplicate |-> FALSE, seen |-> seen]
  ELSE IF Trim(email_cell[1]) = <<>>
  THEN [is_duplicate |-> FALSE, seen |-> seen]
  ELSE LET ins == HashSetInsert(seen, Trim(email_cell[1]))
       IN [is_duplicate |-> ~ins.inserted, seen |-> ins.set]

\* is_duplicate without the test for an empty email.
SeenStepNoEmptyTest(email_cell, seen) ==
  IF email_cell = None THEN [is_duplicate |-> FALSE, seen |-> seen]
  ELSE LET ins == HashSetInsert(seen, ToLowercase(Trim(email_cell[1])))
       IN [is_duplicate |-> ~ins.inserted, seen |-> ins.set]

\* remove_duplicates_in_file: is_duplicate, and seen_emails after the test.
SeenStep(email_cell, seen) ==
  IF email_cell = None THEN [is_duplicate |-> FALSE, seen |-> seen]
  ELSE IF Trim(email_cell[1]) = <<>>
  THEN [is_duplicate |-> FALSE, seen |-> seen]
  ELSE LET ins == HashSetInsert(seen, ToLowercase(Trim(email_cell[1])))
       IN [is_duplicate |-> ~ins.inserted, seen |-> ins.set]

\* ------------------------------------------------------------- file system

Absent == [exists |-> FALSE, data |-> <<>>]
FileOf(data) == [exists |-> TRUE, data |-> data]

\* File::create: the file exists and is empty afterwards.
CreateFile(f, path) == [f EXCEPT ![path] = FileOf(<<>>)]

\* std::fs::remove_file; its result is discarded by main.
RemoveFile(f, path) == [f EXCEPT ![path] = Absent]

\* std::fs::rename(from, to): to gets from's content, from is gone.
RenameFile(f, from, to) == [f EXCEPT ![to] = f[from], ![from] = Absent]

\* A write through the csv writer to the file at path.
WriteTo(f, path, record) ==
  [f EXCEPT ![path] = FileOf(WriteRecord(f[path].data, record))]

\* ------------------------------------------------------------------ inputs

PROGRAM == <<"c">>
SentPath == <<"s">>
FinalPath == <<"f">>
Paths == {SentPath, FinalPath, TempOutputPath(FinalPath)}

BSeq(S, n) == UNION {[1..k -> S] : k \in 0..n}

\* Rows under the header (email, name): every kind of email value, two rows
\* that differ from another only in the name, and a row of one field.
RowsEmailFirst ==
  {<<e, <<"x">>>> : e \in {<<>>, <<" ">>, <<"a">>, <<" ", "A">>, <<"b">>}}
  \cup {<<<<"a">>, <<"y">>>>, <<<<>>, <<"y">>>>, <<<<"a">>>>}

\* Rows under the header (name, email); the row of one field has no email.
RowsEmailLast ==
  {<<<<"x">>, <<"a">>>>, <<<<"x">>, <<" ", "A">>>>, <<<<"y">>, <<>>>>,
   <<<<"x">>>>}

NoEmailHeader == <<<<"E", "m", "a", "i", "l">>, NAME>>

TargetFiles ==
  {<<<<EMAIL, NAME>>>> \o rows : rows \in BSeq(RowsEmailFirst, MaxRows)}
  \cup {<<<<NAME, EMAIL>>>> \o rows : rows \in BSeq(RowsEmailLast, MaxRows)}
  \cup {<<NoEmailHeader>>, <<NoEmailHeader, <<<<"a">>, <<"x">>>>>>}

RefEmails == {<<>>, <<"A", " ">>, <<"b">>}

RefFiles ==
  {<<<<EMAIL>>>> \o rows : rows \in BSeq({<<e>> : e \in RefEmails}, MaxRefRows)}
  \cup {<<<<NAME>>, <<<<"a">>>>>>}

\* The command lines, the program's name first.
CommandLines ==
  {<<PROGRAM>>, <<PROGRAM, FinalPath>>, <<PROGRAM, SentPath, FinalPath>>,
   <<PROGRAM, FinalPath, FinalPath>>}

\* The files a command line is run on: the target, and the reference where
\* the command line names one that is not the target.
FilesFor(a) ==
  IF Len(a) = 1
  THEN {[p \in Paths |-> Absent]}
  ELSE IF Len(a) = 3 /\ a[2] = SentPath
  THEN {[p \in Paths |->
           IF p = SentPath THEN FileOf(r)
           ELSE IF p = FinalPath THEN FileOf(t) ELSE Absent] :
         r \in RefFiles, t \in TargetFiles}
  ELSE {[p \in Paths |-> IF p = FinalPath THEN FileOf(t) ELSE Absent] :
         t \in TargetFiles}

\* ------------------------------------------------------------------- state

VARIABLES
  args,             \* env::args(): the command line
  fs,               \* the files: path -> [exists, data]
  pc,               \* position of the program
  err,              \* the result of main: "none" or the kind of the error
  sent_emails,      \* read_emails_to_set: emails, then main's sent_emails
  rd,               \* the data of the file the open csv reader reads
  idx,              \* records the reader has yielded
  headers,          \* headers
  email_col_index,  \* email_col_index
  seen_emails,      \* seen_emails
  kept_count,       \* kept_count
  keptIdx,          \* history: positions (from 0) of the records written
  orig,             \* history: the target file when the run started
  ref_data,         \* history: the reference file as it was opened
  input_data,       \* history: the target file as it was opened
  last,             \* history: the run before this one
  runs              \* number of runs started

vars == <<args, fs, pc, err, sent_emails, rd, idx, headers, email_col_index,
          seen_emails, kept_count, keptIdx, orig, ref_data, input_data, last,
          runs>>

\* main, match args.len(): 3, 2, anything else.
mode ==
  IF Len(args) = 3 THEN "exclusion"
  ELSE IF Len(args) = 2 THEN "dedup" ELSE "usage"

\* main: sent_file_path = &args[1] (from 0) in the exclusion mode.
sent_file_path == args[2]

\* main: final_file_path = &args[2], file_path = &args[1] (from 0).
final_file_path == IF Len(args) = 3 THEN args[3] ELSE args[2]

temp_output_path == TempOutputPath(final_file_path)

NoRun == [ran |-> FALSE, err |-> "none", ref |-> Absent, dropped |-> FALSE]

\* The locals of a run as they are when main starts.
FreshLocals ==
  /\ sent_emails' = {}
  /\ rd' = <<>>
  /\ idx' = 0
  /\ headers' = <<>>
  /\ email_col_index' = 0
  /\ seen_emails' = {}
  /\ kept_count' = 0
  /\ keptIdx' = <<>>

Init ==
  /\ args \in CommandLines
  /\ fs \in FilesFor(args)
  /\ pc = "main"
  /\ err = "none"
  /\ sent_emails = {}
  /\ rd = <<>>
  /\ idx = 0
  /\ headers = <<>>
  /\ email_col_index = 0
  /\ seen_emails = {}
  /\ kept_count = 0
  /\ keptIdx = <<>>
  /\ orig = Absent
  /\ ref_data = Absent
  /\ input_data = Absent
  /\ last = NoRun
  /\ runs = 1

Frame == UNCHANGED <<args, orig, last, runs>>

\* main, args.len() == 3: the exclusion mode begins.
Main3 ==
  /\ pc = "main"
  /\ Len(args) = 3
  /\ orig' = fs[final_file_path]
  /\ pc' = "read_open"
  /\ UNCHANGED <<args, fs, err, sent_emails, rd, idx, headers,
                 email_col_index, seen_emails, kept_count, keptIdx, ref_data,
                 input_data, last, runs>>

\* main, args.len() == 2: the dedup mode begins.
Main2 ==
  /\ pc = "main"
  /\ Len(args) = 2
  /\ orig' = fs[final_file_path]
  /\ pc' = "open_input"
  /\ UNCHANGED <<args, fs, err, sent_emails, rd, idx, headers,
                 email_col_index, seen_emails, kept_count, keptIdx, ref_data,
                 input_data, last, runs>>

\* main, any other number of arguments: the usage error.
MainUsage ==
  /\ pc = "main"
  /\ Len(args) \notin {2, 3}
  /\ pc' = "done"
  /\ err' = "UsageError"
  /\ UNCHANGED <<args, fs, sent_emails, rd, idx, headers, email_col_index,
                 seen_emails, kept_count, keptIdx, orig, ref_data, input_data,
                 last, runs>>

\* The same command line is run again on the files the last run left.
RunAgain ==
  /\ pc = "done"
  /\ runs < MaxRuns
  /\ runs' = runs + 1
  /\ last' = [ran |-> TRUE, err |-> err, ref |-> ref_data,
              dropped |-> kept_count < NumRecords(input_data.data)]
  /\ pc' = "main"
  /\ err' = "none"
  /\ orig' = Absent
  /\ ref_data' = Absent
  /\ input_data' = Absent
  /\ FreshLocals
  /\ UNCHANGED <<args, fs>>

\* A function of main's callees returned Err(e), or main did.
Failed(e) ==
  /\ pc' = "done"
  /\ err' = e
  /\ FreshLocals

\* main, lines 27-30: read_emails_to_set returned Err(e); main returns it.
ReadErr(e) ==
  /\ Failed(e)
  /\ UNCHANGED fs

\* main, lines 41-46 and 63-68: the pass returned Err(e); the temporary file
\* is removed and main returns the error.
PassErr(e) ==
  /\ Failed(e)
  /\ fs' = RemoveFile(fs, temp_output_path)

\* ---------------------------------------------------- read_emails_to_set

\* File::open(file_path)? and the reader on it.
ReadOpen ==
  /\ pc = "read_open"
  /\ \/ /\ fs[sent_file_path].exists
        /\ rd' = fs[sent_file_path].data
        /\ ref_data' = fs[sent_file_path]
        /\ pc' = "read_headers"
        /\ UNCHANGED <<fs, err, sent_emails, idx, headers, email_col_index,
                       seen_emails, kept_count, keptIdx>>
     \/ /\ ReadErr("IoError")
        /\ UNCHANGED ref_data
  /\ UNCHANGED input_data
  /\ Frame

\* csv_reader.headers()? and the position of the "email" column.
ReadHeaders ==
  /\ pc = "read_headers"
  /\ \/ /\ Position(HeadersOf(rd)) # None
        /\ headers' = HeadersOf(rd)
        /\ email_col_index' = Position(HeadersOf(rd))[1]
        /\ pc' = "read_loop"
        /\ UNCHANGED <<fs, err, sent_emails, rd, idx, seen_emails, kept_count,
                       keptIdx>>
     \/ /\ Position(HeadersOf(rd)) = None
        /\ ReadErr("ColumnNotFound")
     \/ ReadErr("IoError")
  /\ UNCHANGED <<ref_data, input_data>>
  /\ Frame

\* One turn of `for result in csv_reader.records()`, and the Ok(emails) that
\* follows the loop.
ReadRecord ==
  /\ pc = "read_loop"
  /\ \/ /\ idx < NumRecords(rd)
        /\ ~UnequalLengths(headers, RecordAt(rd, idx))
        /\ sent_emails' =
             InsertEmail(sent_emails, Get(RecordAt(rd, idx), email_col_index))
        /\ idx' = idx + 1
        /\ UNCHANGED <<fs, pc, err, rd, headers, email_col_index, seen_emails,
                       kept_count, keptIdx>>
     \/ /\ idx < NumRecords(rd)
        /\ UnequalLengths(headers, RecordAt(rd, idx))
        /\ ReadErr("ParseError")
     \/ /\ idx < NumRecords(rd)
        /\ ReadErr("IoError")
     \/ /\ idx = NumRecords(rd)
        /\ pc' = "open_input"
        /\ rd' = <<>>
        /\ idx' = 0
        /\ headers' = <<>>
        /\ email_col_index' = 0
        /\ UNCHANGED <<fs, err, sent_emails, seen_emails, kept_count, keptIdx>>
  /\ UNCHANGED <<ref_data, input_data>>
  /\ Frame

\* ------------------------- clean_file_by_emails, remove_duplicates_in_file

\* File::open(input_file_path)? and the reader on it.
OpenInput ==
  /\ pc = "open_input"
  /\ \/ /\ fs[final_file_path].exists
        /\ rd' = fs[final_file_path].data
        /\ input_data' = fs[final_file_path]
        /\ pc' = "create_temp"
        /\ UNCHANGED <<fs, err, sent_emails, idx, headers, email_col_index,
                       seen_emails, kept_count, keptIdx>>
     \/ /\ PassErr("IoError")
        /\ UNCHANGED input_data
  /\ UNCHANGED ref_data
  /\ Frame

\* File::create(temp_output_path)? and the writer on it.
CreateTemp ==
  /\ pc = "create_temp"
  /\ \/ /\ fs' = CreateFile(fs, temp_output_path)
        /\ pc' = "headers"
        /\ UNCHANGED <<err, sent_emails, rd, idx, headers, email_col_index,
                       seen_emails, kept_count, keptIdx>>
     \/ PassErr("IoError")
  /\ UNCHANGED <<ref_data, input_data>>
  /\ Frame

\* csv_reader.headers()?, csv_writer.write_record(&headers)?, and the
\* position of the "email" column.
Headers ==
  /\ pc = "headers"
  /\ \/ /\ Position(HeadersOf(rd)) # None
        /\ headers' = HeadersOf(rd)
        /\ fs' = WriteTo(fs, temp_output_path, HeadersOf(rd))
        /\ email_col_index' = Position(HeadersOf(rd))[1]
        /\ pc' = "records"
        /\ UNCHANGED <<err, sent_emails, rd, idx, seen_emails, kept_count,
                       keptIdx>>
     \/ /\ Position(HeadersOf(rd)) = None
        /\ PassErr("ColumnNotFound")
     \/ PassErr("IoError")
  /\ UNCHANGED <<ref_data, input_data>>
  /\ Frame

\* clean_file_by_emails: one turn of the loop over the records.
CleanRecord ==
  /\ pc = "records"
  /\ mode = "exclusion"
  /\ idx < NumRecords(rd)
  /\ LET record == RecordAt(rd, idx)
         keep_row == KeepRow(Get(record, email_col_index), sent_emails)
     IN \/ /\ ~UnequalLengths(headers, record)
           /\ keep_row
           /\ fs' = WriteTo(fs, temp_output_path, record)
           /\ kept_count' = kept_count + 1
           /\ keptIdx' = Append(keptIdx, idx)
           /\ idx' = idx + 1
           /\ UNCHANGED <<pc, err, sent_emails, rd, headers, email_col_index,
                          seen_emails>>
        \/ /\ ~UnequalLengths(headers, record)
           /\ ~keep_row
           /\ idx' = idx + 1
           /\ UNCHANGED <<fs, pc, err, sent_emails, rd, headers,
                          email_col_index, seen_emails, kept_count, keptIdx>>
        \/ /\ UnequalLengths(headers, record)
           /\ PassErr("ParseError")
        \/ PassErr("IoError")
  /\ UNCHANGED <<ref_data, input_data>>
  /\ Frame

\* remove_duplicates_in_file: one turn of the loop over the records.
DedupRecord ==
  /\ pc = "records"
  /\ mode = "dedup"
  /\ idx < NumRecords(rd)
  /\ LET record == RecordAt(rd, idx)
         step == SeenStep(Get(record, email_col_index), seen_emails)
         is_duplicate == step.is_duplicate
     IN \/ /\ ~UnequalLengths(headers, record)
           /\ ~is_duplicate
           /\ seen_emails' = step.seen
           /\ fs' = WriteTo(fs, temp_output_path, record)
           /\ kept_count' = kept_count + 1
           /\ keptIdx' = Append(keptIdx, idx)
           /\ idx' = idx + 1
           /\ UNCHANGED <<pc, err, sent_emails, rd, headers, email_col_index>>
        \/ /\ ~UnequalLengths(headers, record)
           /\ is_duplicate
           /\ seen_emails' = step.seen
           /\ idx' = idx + 1
           /\ UNCHANGED <<fs, pc, err, sent_emails, rd, headers,
                          email_col_index, kept_count, keptIdx>>
        \/ /\ UnequalLengths(headers, record)
           /\ PassErr("ParseError")
        \/ PassErr("IoError")
  /\ UNCHANGED <<ref_data, input_data>>
  /\ Frame

\* csv_writer.flush()? after the loop, and Ok(kept_count).
Flush ==
  /\ pc = "records"
  /\ idx = NumRecords(rd)
  /\ \/ /\ pc' = "rename"
        /\ UNCHANGED <<fs, err, sent_emails, rd, idx, headers, email_col_index,
                       seen_emails, kept_count, keptIdx>>
     \/ PassErr("IoError")
  /\ UNCHANGED <<ref_data, input_data>>
  /\ Frame

\* main, lines 38 and 60: std::fs::rename(&temp_output_path, path)?
Rename ==
  /\ pc = "rename"
  /\ \/ /\ fs' = RenameFile(fs, temp_output_path, final_file_path)
        /\ err' = "none"
     \/ /\ err' = "IoError"
        /\ UNCHANGED fs
  /\ pc' = "done"
  /\ UNCHANGED <<sent_emails, rd, idx, headers, email_col_index, seen_emails,
                 kept_count, keptIdx, ref_data, input_data>>
  /\ Frame

Next ==
  \/ Main3
  \/ Main2
  \/ MainUsage
  \/ RunAgain
  \/ ReadOpen
  \/ ReadHeaders
  \/ ReadRecord
  \/ OpenInput
  \/ CreateTemp
  \/ Headers
  \/ CleanRecord
  \/ DedupRecord
  \/ Flush
  \/ Rename

Spec == Init /\ [][Next]_vars

\* ----------------------------------------------------- what the claims say

Range(q) == {q[k] : k \in 1..Len(q)}

HasEmailColumn(hdr) == \E i \in 1..Len(hdr) : hdr[i] = EMAIL

\* The key of a row under a header: the field of the first column named
\* email, trimmed and lowercased; the empty string when the field is absent.
KeyOf(hdr, record) ==
  LET c == CHOOSE i \in 1..Len(hdr) :
             hdr[i] = EMAIL /\ \A j \in 1..(i - 1) : hdr[j] # EMAIL
  IN IF c <= Len(record) THEN ToLowercase(Trim(record[c])) ELSE <<>>

\* The records of a file's data, without the header row.
RecordsOf(data) == IF data = <<>> THEN <<>> ELSE Tail(data)

\* The non-empty keys of a file's records.
KeySetOf(data) ==
  {KeyOf(HeadersOf(data), r) : r \in Range(RecordsOf(data))} \ {<<>>}

\* q without the elements at the positions where Drop(q, i) holds.
Without(q, Drop(_, _)) ==
  LET keep == {i \in 1..Len(q) : ~Drop(q, i)}
      nth(k) == CHOOSE i \in keep : Cardinality({j \in keep : j <= i}) = k
  IN [k \in 1..Cardinality(keep) |-> q[nth(k)]]

InputHeader == HeadersOf(input_data.data)
InputRecords == RecordsOf(input_data.data)
InputKey(i) == KeyOf(InputHeader, InputRecords[i])
RefKeys == KeySetOf(ref_data.data)

Succeeded == pc = "done" /\ err = "none"

\* The pass has a header and an output: it is in its loop, has returned
\* Ok, or the run has succeeded.
InPass ==
  /\ mode \in {"exclusion", "dedup"}
  /\ pc \in {"records", "rename"} \/ Succeeded

\* The file the output is in: the temporary file, the target once renamed.
OutputFile == IF Succeeded THEN fs[final_file_path] ELSE fs[temp_output_path]
OutputRecords == RecordsOf(OutputFile.data)

\* Exclusion: the record at position i of q is dropped.
ExcludedAt(q, i) ==
  LET k == KeyOf(InputHeader, q[i]) IN k # <<>> /\ k \in RefKeys

\* Dedup: the record at position i of q has the key of an earlier record.
RepeatedAt(q, i) ==
  LET k == KeyOf(InputHeader, q[i])
  IN k # <<>> /\ \E j \in 1..(i - 1) : KeyOf(InputHeader, q[j]) = k

EmptyKeyAt(q, i) == KeyOf(InputHeader, q[i]) = <<>>
KeyedAt(q, i) == ~EmptyKeyAt(q, i)

Processed == SubSeq(InputRecords, 1, idx)

\* C1: in exclusion mode the records written are the records read so far
\* without exactly those whose trimmed, lowercased email is non-empty and
\* is among the trimmed, lowercased non-empty emails of the reference file;
\* after a successful run that is the content of the target.
C1_ExclusionDropsIff ==
  (InPass /\ mode = "exclusion") =>
    OutputRecords = Without(Processed, ExcludedAt)

C1_Witness ==
  /\ Succeeded /\ mode = "exclusion"
  /\ \E i \in 1..Len(InputRecords) :
       /\ ExcludedAt(InputRecords, i)
       /\ \A r \in Range(RecordsOf(ref_data.data)) :
            r[1] # InputRecords[i][email_col_index + 1]
  /\ \E i \in 1..Len(InputRecords) :
       InputKey(i) # <<>> /\ ~ExcludedAt(InputRecords, i)

\* C2: in dedup mode the records written have pairwise distinct non-empty
\* keys, and for every non-empty key read so far the one record written
\* with it is the earliest record read that has it.
C2_DedupFirstOccurrence ==
  (InPass /\ mode = "dedup") =>
    /\ \A i, j \in 1..Len(OutputRecords) :
         (i # j /\ KeyedAt(OutputRecords, i)) =>
           KeyOf(InputHeader, OutputRecords[i])
             # KeyOf(InputHeader, OutputRecords[j])
    /\ \A i \in 1..idx :
         (KeyedAt(InputRecords, i) /\ ~RepeatedAt(InputRecords, i)) =>
           \E o \in 1..Len(OutputRecords) :
             /\ OutputRecords[o] = InputRecords[i]
             /\ \A o2 \in 1..Len(OutputRecords) :
                  KeyOf(InputHeader, OutputRecords[o2]) = InputKey(i) => o2 = o

C2_Witness ==
  /\ Succeeded /\ mode = "dedup"
  /\ \E i, j \in 1..Len(InputRecords) :
       /\ i < j
       /\ InputKey(i) = InputKey(j)
       /\ InputKey(i) # <<>>
       /\ InputRecords[i] # InputRecords[j]
       /\ InputRecords[i][email_col_index + 1]
            # InputRecords[j][email_col_index + 1]
       /\ OutputRecords = <<InputRecords[i]>>

\* C3: in both modes the records with an empty, whitespace-only or absent
\* email that were read so far are all written, in their order.
C3_EmptyKeysKept ==
  InPass =>
    Without(OutputRecords, KeyedAt)
      = Without(Processed, KeyedAt)

C3_Witness ==
  /\ Succeeded /\ mode = "dedup"
  /\ Len(InputRecords) = 2
  /\ InputRecords[1][email_col_index + 1] = <<>>
  /\ InputRecords[2][email_col_index + 1] = <<" ">>
  /\ InputRecords[1][2 - email_col_index]
       = InputRecords[2][2 - email_col_index]
  /\ OutputRecords = InputRecords

C3_WitnessExclusion ==
  /\ Succeeded /\ mode = "exclusion"
  /\ sent_emails # {}
  /\ \E i \in 1..Len(InputRecords) : InputRecords[i][email_col_index + 1] = <<" ">>
  /\ Len(OutputRecords) = 1 /\ Len(InputRecords) = 2
  /\ OutputRecords[1][email_col_index + 1] = <<" ">>

\* The run repeats a successful run of the same command line, with the same
\* reference keys in the exclusion mode.
SameRunAgain ==
  /\ Succeeded
  /\ mode \in {"exclusion", "dedup"}
  /\ last.ran /\ last.err = "none"
  /\ mode = "exclusion" => KeySetOf(last.ref.data) = RefKeys

\* C4: a successful run that repeats a successful run of the same mode on
\* its output (with the same reference keys in the exclusion mode) leaves the
\* target with the same header and the same records in the same order.
C4_Idempotent == SameRunAgain => fs[final_file_path] = orig

C4_Witness == SameRunAgain /\ mode = "exclusion" /\ last.dropped

C4_WitnessDedup == SameRunAgain /\ mode = "dedup" /\ last.dropped

\* The complete filtered output of the run on the target as it was.
ExpectedOutput ==
  <<HeadersOf(orig.data)>> \o
    (IF mode = "exclusion"
     THEN Without(RecordsOf(orig.data), ExcludedAt)
     ELSE Without(RecordsOf(orig.data), RepeatedAt))

\* C5: the target is what it was when the run started until the run has
\* succeeded, and then it is the complete filtered output: the header and
\* every kept record.  A run that ends with an error leaves it as it was.
C5_NoPartialSuccess ==
  mode \in {"exclusion", "dedup"} /\ pc # "main" =>
    IF Succeeded
    THEN fs[final_file_path] = FileOf(ExpectedOutput)
    ELSE fs[final_file_path] = orig

\* The rename failed after the whole output was written and flushed.
C5_Witness ==
  /\ pc = "done" /\ err = "IoError" /\ runs = 1
  /\ mode = "dedup"
  /\ fs[temp_output_path].exists
  /\ Len(fs[temp_output_path].data) = 2
  /\ Len(orig.data) = 3
  /\ fs[final_file_path] = orig

\* C6: no run that ends with an error leaves a file at "<target>.temp".
C6_TempDeletedOnFailure ==
  (pc = "done" /\ err # "none" /\ mode \in {"exclusion", "dedup"}) =>
    ~fs[temp_output_path].exists

\* C7: a file whose header has no entry equal to "email" ends the run with
\* ColumnNotFound (or with the I/O error of a step before the column is
\* looked up) before any of its records is read, tested or written, and the
\* target stays as it was.
C7_MissingColumnAborts ==
  /\ (mode = "exclusion" /\ ref_data.exists
        /\ ~HasEmailColumn(HeadersOf(ref_data.data))) =>
       /\ pc \in {"read_headers", "done"}
       /\ idx = 0
       /\ sent_emails = {}
       /\ ~input_data.exists
       /\ fs[final_file_path] = orig
       /\ pc = "done" => err \in {"ColumnNotFound", "IoError"}
  /\ (mode \in {"exclusion", "dedup"} /\ input_data.exists
        /\ ~HasEmailColumn(HeadersOf(input_data.data))) =>
       /\ pc \in {"create_temp", "headers", "done"}
       /\ idx = 0
       /\ keptIdx = <<>>
       /\ kept_count = 0
       /\ seen_emails = {}
       /\ fs[final_file_path] = orig
       /\ pc = "done" => err \in {"ColumnNotFound", "IoError"}

C7_Witness ==
  /\ pc = "done" /\ err = "ColumnNotFound"
  /\ mode = "exclusion"
  /\ input_data.exists
  /\ NumRecords(input_data.data) = 1
  /\ NumRecords(ref_data.data) = 1
  /\ ~fs[temp_output_path].exists

C7_WitnessReference ==
  /\ pc = "done" /\ err = "ColumnNotFound"
  /\ mode = "exclusion"
  /\ ~input_data.exists
  /\ NumRecords(ref_data.data) = 1

\* C8: the output is the input's header followed by the records written,
\* which are records of the input at increasing positions, unchanged;
\* nothing is in the output before the header.
C8_HeaderThenKeptInOrder ==
  /\ (mode \in {"exclusion", "dedup"} /\ pc = "headers") =>
       fs[temp_output_path] = FileOf(<<>>)
  /\ InPass =>
       /\ OutputFile
            = FileOf(<<InputHeader>> \o
                       [k \in 1..Len(keptIdx) |-> InputRecords[keptIdx[k] + 1]])
       /\ \A k \in 1..Len(keptIdx) :
            /\ keptIdx[k] < idx
            /\ k > 1 => keptIdx[k - 1] < keptIdx[k]
       /\ kept_count = Len(keptIdx)

C8_Witness ==
  /\ Succeeded /\ mode = "dedup"
  /\ InputHeader = <<NAME, EMAIL>>
  /\ InputRecords = <<<<<<"x">>, <<" ", "A">>>>, <<<<"x">>, <<"a">>>>>>
  /\ fs[final_file_path].data = <<InputHeader, InputRecords[1]>>

ProcessedKeys == {InputKey(i) : i \in 1..idx} \ {<<>>}

\* The seen set is the set of the non-empty keys read so far, and has one
\* element for each record written that has a non-empty key.
C9_SeenIsKeysSoFar ==
  /\ (mode = "dedup" /\ pc \in {"main", "open_input", "create_temp", "headers"})
       => seen_emails = {}
  /\ (mode = "dedup" /\ InPass) =>
       /\ seen_emails = ProcessedKeys
       /\ Cardinality(seen_emails)
            = Cardinality({k \in 1..Len(keptIdx) :
                             InputKey(keptIdx[k] + 1) # <<>>})

\* One step of the dedup pass: the seen set loses nothing, stays as it is for
\* a record with an empty key and for a dropped record, and gains the key of
\* a kept record that has one.
C9_SeenStep ==
  (mode = "dedup" /\ pc = "records" /\ pc' \in {"records", "rename"}) =>
    /\ seen_emails \subseteq seen_emails'
    /\ idx' = idx => seen_emails' = seen_emails
    /\ idx' = idx + 1 =>
         IF InputKey(idx') = <<>>
         THEN seen_emails' = seen_emails /\ keptIdx' = Append(keptIdx, idx)
         ELSE IF keptIdx' = keptIdx
         THEN seen_emails' = seen_emails
         ELSE /\ keptIdx' = Append(keptIdx, idx)
              /\ InputKey(idx') \notin seen_emails
              /\ seen_emails' = seen_emails \cup {InputKey(idx')}

\* C9: during a dedup pass the seen set starts empty, never loses an
\* element, is unchanged by records with an empty key and by dropped records,
\* gains one element for each kept record with a non-empty key, and so is
\* always the set of the non-empty keys read so far.
C9_SeenSet == [](C9_SeenIsKeysSoFar) /\ [][C9_SeenStep]_vars

C9_Witness ==
  /\ mode = "dedup" /\ pc = "records"
  /\ idx = 2
  /\ Cardinality(seen_emails) = 1
  /\ keptIdx = <<0>>

\* C10: a step changes no file but the target and the target's path with
\* ".temp" appended; while the reference is read no file changes, and an
\* error there ends the run with the target unopened.
C10_Step ==
  mode \in {"exclusion", "dedup"} =>
  /\ \A p \in DOMAIN fs :
       (p # final_file_path /\ p # final_file_path \o DOT_TEMP) =>
         fs'[p] = fs[p]
  /\ pc \in {"read_open", "read_headers", "read_loop"} =>
       /\ fs' = fs
       /\ ~input_data'.exists
       /\ err' # "none" => pc' = "done"

C10_Footprint == [][C10_Step]_vars

C10_Witness ==
  /\ Succeeded /\ mode = "exclusion"
  /\ sent_file_path = SentPath
  /\ fs[final_file_path] # orig
  /\ fs[sent_file_path] = ref_data
  /\ ~fs[temp_output_path].exists

C10_WitnessReadError ==
  /\ pc = "done" /\ err = "ParseError"
  /\ mode = "exclusion"
  /\ ~input_data.exists
  /\ fs[final_file_path] = orig

====
